---- MODULE Spec2Model ----
(***************************************************************************)
(* The provider registry of the kad-dht: class Providers and its helpers   *)
(* (makeProviderKey, writeProviderEntry, parseProviderKey, loadProviders,  *)
(* readTime).  Strings are sequences of characters, byte buffers are       *)
(* sequences of numbers 0..255, a Date is its millisecond value.           *)
(***************************************************************************)
EXTENDS Integers, Sequences, FiniteSets, TLC

VARIABLES
  backend,   \* components.datastore: a set of [key, value] entries
  cache,     \* this.cache (LRU): sequence of [key, value], most recent last
  queue,     \* this.syncQueue: units admitted and not yet started (FIFO)
  cur,       \* the unit holding the single slot of syncQueue, with its locals
  started,   \* this.started
  cleaner,   \* this.cleaner: the handle setInterval returned, or None
  timers,    \* the interval timers the runtime holds as scheduled
  now,       \* the wall clock, Date.now()
  nsub,      \* number of units submitted so far (bounds the exploration)
  added,     \* history: <<cid text, peer text>> whose addProvider completed
  live,      \* history: added, and no sweep has since read the record as expired
  swept      \* history: record deleted by a committed sweep and not written again

vars == <<backend, cache, queue, cur, started, cleaner, timers, now, nsub,
          added, live, swept>>

----------------------------------------------------------------------------
(* Bounds of the exploration *)

MaxTicks == 2

MaxOps == 3

MaxQueue == 2

(* Configuration of the instance under check (ProvidersInit), in ms *)

provideValidity == 100

cacheSize == 1

None == "none"

CIDS == {"CID_A", "CID_B"}

PEERS == {"PEER_1", "PEER_2"}

TimerIds == {"timer1", "timer2"}

----------------------------------------------------------------------------
(* Text forms *)

\* uint8ArrayToString(cid.multihash.bytes, 'base32')
base32(cid) ==
  IF cid = "CID_A" THEN <<"a">>
  ELSE IF cid = "CID_B" THEN <<"b">>
  ELSE <<"a", "b">>

\* peer.toString()
peerToString(peer) == IF peer = "PEER_1" THEN <<"1">> ELSE <<"2">>

\* peerIdFromString: the inverse of toString on well-formed peer texts
peerIdFromString(str) == CHOOSE p \in PEERS : peerToString(p) = str

\* String.prototype.startsWith, the prefix filter of a datastore query
StartsWith(s, pre) == Len(pre) <= Len(s) /\ SubSeq(s, 1, Len(pre)) = pre

\* String.prototype.split('/'): the pieces between consecutive separators
Split(s) ==
  LET seps == SelectSeq([i \in 1..Len(s) |-> i], LAMBDA i : s[i] = "/")
      n == Len(seps)
      sep(k) == IF k = 0 THEN 0
                ELSE IF k = n + 1 THEN Len(s) + 1
                ELSE seps[k]
  IN  [k \in 1..(n + 1) |-> SubSeq(s, sep(k - 1) + 1, sep(k) - 1)]

\* The prefix of every provider key; parseProviderKey reads the cid at
\* parts[3] and the peer at parts[4] of five parts, so it has two segments.
PROVIDER_KEY_PREFIX == <<"/", "dht", "/", "provider">>

\* varint.encode: LEB128, low 7 bits first, 0x80 marks continuation
RECURSIVE varintEncode(_)
varintEncode(n) ==
  IF n < 128 THEN <<n>>
  ELSE <<(n % 128) + 128>> \o varintEncode(n \div 128)

\* varint.decode: throws RangeError when the buffer ends in a continuation
RECURSIVE varintDecodeAt(_, _, _, _)
varintDecodeAt(buf, i, mult, shift) ==
  IF i > Len(buf) \/ shift > 49 THEN [ok |-> FALSE, value |-> 0]
  ELSE IF buf[i] >= 128
       THEN LET r == varintDecodeAt(buf, i + 1, mult * 128, shift + 7)
            IN  [ok |-> r.ok, value |-> (buf[i] % 128) * mult + r.value]
       ELSE [ok |-> TRUE, value |-> buf[i] * mult]

readTime(buf) == varintDecodeAt(buf, 1, 1, 0)

makeProviderKey(cidStr) == PROVIDER_KEY_PREFIX \o <<"/">> \o cidStr

\* a key built from the cid alone
ProviderEntryKey_CidOnly(cid, peer) == makeProviderKey(base32(cid))

\* a key joined without the '/' of line 399
ProviderEntryKey_NoSeparator(cid, peer) ==
  makeProviderKey(base32(cid)) \o peerToString(peer)

\* the key writeProviderEntry builds
ProviderEntryKey(cid, peer) ==
  makeProviderKey(base32(cid)) \o <<"/">> \o peerToString(peer)

parseProviderKey(key) ==
  LET parts == Split(key)
  IN  IF Len(parts) # 5
      THEN [ok |-> FALSE, cid |-> <<>>, peerId |-> <<>>]
      ELSE [ok |-> TRUE, cid |-> parts[4], peerId |-> parts[5]]

----------------------------------------------------------------------------
(* The Datastore contract *)

DatastorePut(store, key, value) ==
  {e \in store : e.key # key} \cup {[key |-> key, value |-> value]}

DatastoreQuery(store, prefix) == {e \in store : StartsWith(e.key, prefix)}

BatchCommit(store, batch) == {e \in store : e.key \notin batch}

\* a writer that adds the entry without replacing the one under the key
writeProviderEntry_NoOverwrite(store, cid, peer, time) ==
  store \cup {[key |-> ProviderEntryKey(cid, peer), value |-> varintEncode(time)]}

writeProviderEntry(store, cid, peer, time) ==
  DatastorePut(store, ProviderEntryKey(cid, peer), varintEncode(time))

(* The LRU cache contract *)

CacheIndex(c, key) ==
  IF \E i \in 1..Len(c) : c[i].key = key
  THEN CHOOSE i \in 1..Len(c) : c[i].key = key
  ELSE 0

CacheHas(c, key) == CacheIndex(c, key) # 0

CacheValue(c, key) == c[CacheIndex(c, key)].value

CacheWithout(c, key) == SelectSeq(c, LAMBDA x : x.key # key)

\* cache.get: a hit makes the entry the most recent one
CacheTouch(c, key) ==
  IF CacheHas(c, key)
  THEN Append(CacheWithout(c, key), [key |-> key, value |-> CacheValue(c, key)])
  ELSE c

\* cache.set: insert or replace; over capacity the least recent entry goes
CacheSet(c, key, value) ==
  LET d == Append(CacheWithout(c, key), [key |-> key, value |-> value])
  IN  IF Len(d) > cacheSize THEN Tail(d) ELSE d

CacheRemove(c, key) == CacheWithout(c, key)

----------------------------------------------------------------------------
(* loadProviders and _getProvidersMap.  io = FALSE: the datastore call fails *)

EmptyMap == [x \in {} |-> 0]

loadProviders(store, cid, io) ==
  LET entries == DatastoreQuery(store, makeProviderKey(base32(cid)))
      \* what line 433-434 computes for each entry of the query
      read == {LET k == parseProviderKey(e.key)
                   t == readTime(e.value)
               IN  [ok |-> k.ok /\ t.ok, peerId |-> k.peerId, time |-> t.value] :
               e \in entries}
      peersOf == {r.peerId : r \in read}
  IN  IF ~io THEN [err |-> "BackendFailure", provs |-> EmptyMap]
      ELSE IF \E r \in read : ~r.ok
      THEN [err |-> "Malformed", provs |-> EmptyMap]
      ELSE [err |-> "",
            provs |-> [ps \in peersOf |-> (CHOOSE r \in read : r.peerId = ps).time]]

\* a miss that caches an empty map without loading from the datastore
getProvidersMap_NoLoad(c, store, cid, io) ==
  LET cacheKey == makeProviderKey(base32(cid))
  IN  IF CacheHas(c, cacheKey)
      THEN [err |-> "", hit |-> TRUE, provs |-> CacheValue(c, cacheKey),
            cache |-> CacheTouch(c, cacheKey)]
      ELSE [err |-> "", hit |-> FALSE, provs |-> EmptyMap,
            cache |-> CacheSet(c, cacheKey, EmptyMap)]

getProvidersMap(c, store, cid, io) ==
  LET cacheKey == makeProviderKey(base32(cid))
      loaded == loadProviders(store, cid, io)
  IN  IF CacheHas(c, cacheKey)
      THEN [err |-> "", hit |-> TRUE, provs |-> CacheValue(c, cacheKey),
            cache |-> CacheTouch(c, cacheKey)]
      ELSE IF loaded.err # ""
      THEN [err |-> loaded.err, hit |-> FALSE, provs |-> EmptyMap, cache |-> c]
      ELSE [err |-> "", hit |-> FALSE, provs |-> loaded.provs,
            cache |-> CacheSet(c, cacheKey, loaded.provs)]

MapSet(m, k, v) == [x \in (DOMAIN m) \cup {k} |-> IF x = k THEN v ELSE m[x]]

MapDeleteAll(m, ks) == [x \in (DOMAIN m) \ ks |-> m[x]]

----------------------------------------------------------------------------
(* Units of the syncQueue *)

NoUnit ==
  [kind |-> None, cid |-> None, peer |-> None, seq |-> 0, pc |-> None, time |-> 0,
   err |-> "", result |-> {}, todo |-> {}, batch |-> {}, deleted |-> <<>>,
   hit |-> FALSE, old |-> {}, kept |-> {}, backend0 |-> {}, cache0 |-> <<>>]

Unit(kind, cid, peer) == [kind |-> kind, cid |-> cid, peer |-> peer]

\* the unit as syncQueue.add admits it, the n-th of this registry
Admitted(unit, n) ==
  [kind |-> unit.kind, cid |-> unit.cid, peer |-> unit.peer, seq |-> n]

\* the unit in the slot has run its last statement; the queue's next() runs
\* in the same turn of the event loop, before any timer or caller
AtReturn == cur.pc = "done"

Idle == queue = <<>> /\ cur = NoUnit

\* entries an external writer left under CID_A: a key of six parts and a
\* value that ends in a continuation byte
MalformedKeyEntry ==
  [key |-> ProviderEntryKey("CID_A", "PEER_2") \o <<"/", "x">>,
   value |-> varintEncode(0)]

MalformedValueEntry ==
  [key |-> ProviderEntryKey("CID_A", "PEER_1"), value |-> <<128>>]

\* a record an earlier run of the registry wrote at time 0
EarlierEntry ==
  [key |-> ProviderEntryKey("CID_B", "PEER_1"), value |-> varintEncode(0)]

\* the datastore handed to the constructor: one with a record of an earlier
\* run, or one with nothing but the malformed entries
SeedBackends == {{EarlierEntry}, {MalformedKeyEntry, MalformedValueEntry}}

\* the <<cid text, peer text>> of the well-formed entries of a store
PairsIn(store) ==
  LET keys == {parseProviderKey(e.key) : e \in {x \in store : readTime(x.value).ok}}
  IN  {<<k.cid, k.peerId>> : k \in {y \in keys : y.ok}}

Init ==
  /\ backend \in SeedBackends
  /\ cache = <<>>
  /\ queue = <<>>
  /\ cur = NoUnit
  /\ started = FALSE
  /\ cleaner = None
  /\ timers = {}
  /\ now = 0
  /\ nsub = 0
  /\ added = PairsIn(backend)
  /\ live = PairsIn(backend)
  /\ swept = {}

----------------------------------------------------------------------------
(* The clock advances in steps of provideValidity *)

Tick ==
  /\ ~AtReturn
  /\ now < MaxTicks * provideValidity
  /\ now' = now + provideValidity
  /\ UNCHANGED <<backend, cache, queue, cur, started, cleaner, timers, nsub,
                 added, live, swept>>

(* start(), stop() and the interval timer *)

FreshTimer == CHOOSE t \in TimerIds : t \notin timers

\* start without the guard on this.started
StartBody_NoGuard ==
  /\ started' = TRUE
  /\ cleaner' = FreshTimer
  /\ timers' = timers \cup {FreshTimer}

StartBody ==
  IF started
  THEN UNCHANGED <<started, cleaner, timers>>
  ELSE /\ started' = TRUE
       /\ cleaner' = FreshTimer
       /\ timers' = timers \cup {FreshTimer}

Start ==
  /\ ~AtReturn
  /\ timers # TimerIds
  /\ StartBody
  /\ UNCHANGED <<backend, cache, queue, cur, now, nsub, added, live, swept>>

\* stop that forgets clearInterval
StopBody_KeepsTimer ==
  /\ started' = FALSE
  /\ cleaner' = None
  /\ timers' = timers

StopBody ==
  /\ started' = FALSE
  /\ IF cleaner # None
     THEN timers' = timers \ {cleaner} /\ cleaner' = None
     ELSE UNCHANGED <<timers, cleaner>>

Stop ==
  /\ ~AtReturn
  /\ StopBody
  /\ UNCHANGED <<backend, cache, queue, cur, now, nsub, added, live, swept>>

\* history: what the unit found in the backend when it started (for an add,
\* the records of its pair)
Snapshot(unit, store) ==
  IF unit.kind = "sweep" THEN store
  ELSE IF unit.kind = "add"
  THEN {e \in store : e.key = ProviderEntryKey(unit.cid, unit.peer)}
  ELSE {}

\* the unit as it occupies the slot, suspended in its first await
Running(unit) ==
  [NoUnit EXCEPT !.kind = unit.kind,
                 !.cid = unit.cid,
                 !.peer = unit.peer,
                 !.seq = unit.seq,
                 !.pc = "run",
                 !.backend0 = Snapshot(unit, backend),
                 !.cache0 = IF unit.kind = "sweep" THEN cache ELSE <<>>]

\* a queue that starts every unit at once, whatever occupies the slot
Submit_NoWait(unit) ==
  /\ ~AtReturn
  /\ nsub < MaxOps
  /\ nsub' = nsub + 1
  /\ cur' = Running(Admitted(unit, nsub + 1))
  /\ queue' = queue

\* syncQueue.add: the unit starts at once when the slot is free, and waits
\* in the queue otherwise
Submit(unit) ==
  /\ ~AtReturn
  /\ nsub < MaxOps
  /\ nsub' = nsub + 1
  /\ IF cur = NoUnit
     THEN cur' = Running(Admitted(unit, nsub + 1)) /\ queue' = queue
     ELSE /\ Len(queue) < MaxQueue
          /\ queue' = Append(queue, Admitted(unit, nsub + 1))
          /\ cur' = cur

\* a scheduled interval fires: _cleanup() submits one sweep unit
TimerFire ==
  /\ \E t \in timers : Submit(Unit("sweep", None, None))
  /\ UNCHANGED <<backend, cache, started, cleaner, timers, now,
                 added, live, swept>>

\* addProvider(cid, provider) is called: its unit is admitted
CallAddProvider ==
  /\ \E cid \in CIDS, peer \in PEERS : Submit(Unit("add", cid, peer))
  /\ UNCHANGED <<backend, cache, started, cleaner, timers, now,
                 added, live, swept>>

\* getProviders(cid) is called: its unit is admitted
CallGetProviders ==
  /\ \E cid \in CIDS : Submit(Unit("get", cid, None))
  /\ UNCHANGED <<backend, cache, started, cleaner, timers, now,
                 added, live, swept>>

\* a queue that starts nothing after a unit that threw
StartNext_HaltsOnError ==
  /\ cur.pc = "done" /\ cur.err = ""
  /\ queue # <<>>
  /\ cur' = Running(Head(queue))
  /\ queue' = Tail(queue)
  /\ UNCHANGED <<backend, cache, started, cleaner, timers, now, nsub,
                 added, live, swept>>

\* a queue that starts the unit admitted last among those waiting
StartNext_Latest ==
  /\ cur.pc = "done"
  /\ queue # <<>>
  /\ cur' = Running(queue[Len(queue)])
  /\ queue' = SubSeq(queue, 1, Len(queue) - 1)
  /\ UNCHANGED <<backend, cache, started, cleaner, timers, now, nsub,
                 added, live, swept>>

\* concurrency 1: when the unit in the slot settles, the queue starts the
\* unit admitted first among those waiting
StartNext ==
  /\ cur.pc = "done"
  /\ queue # <<>>
  /\ cur' = Running(Head(queue))
  /\ queue' = Tail(queue)
  /\ UNCHANGED <<backend, cache, started, cleaner, timers, now, nsub,
                 added, live, swept>>

\* the unit's promise settles and the queue is empty: the slot is free
Return ==
  /\ cur.pc = "done"
  /\ queue = <<>>
  /\ cur' = NoUnit
  /\ UNCHANGED <<backend, cache, queue, started, cleaner, timers, now, nsub,
                 added, live, swept>>

\* the registry is dropped and a fresh one constructed over the same datastore
Restart ==
  /\ Idle
  /\ ~started
  /\ cache # <<>>
  /\ cache' = <<>>
  /\ UNCHANGED <<backend, queue, cur, started, cleaner, timers, now, nsub,
                 added, live, swept>>

----------------------------------------------------------------------------
(* addProvider *)

Pair(cid, peer) == <<base32(cid), peerToString(peer)>>

\* lines 350-358: load the map, set the peer, put the map in the cache
AddLoad ==
  /\ cur.kind = "add" /\ cur.pc = "run"
  /\ \E io \in BOOLEAN :
       LET got == getProvidersMap(cache, backend, cur.cid, io)
           provs == MapSet(got.provs, peerToString(cur.peer), now)
       IN  IF got.err # ""
           THEN /\ cur' = [cur EXCEPT !.pc = "done", !.err = got.err]
                /\ cache' = got.cache
           ELSE /\ cur' = [cur EXCEPT !.pc = "put", !.time = now, !.hit = got.hit]
                /\ cache' = CacheSet(got.cache,
                                     makeProviderKey(base32(cur.cid)), provs)
  /\ UNCHANGED <<backend, queue, started, cleaner, timers, now, nsub,
                 added, live, swept>>

\* line 360: await writeProviderEntry
AddPut ==
  /\ cur.kind = "add" /\ cur.pc = "put"
  /\ \E io \in BOOLEAN :
       IF io
       THEN /\ backend' = writeProviderEntry(backend, cur.cid, cur.peer, cur.time)
            /\ cur' = [cur EXCEPT !.pc = "done"]
            /\ added' = added \cup {Pair(cur.cid, cur.peer)}
            /\ live' = live \cup {Pair(cur.cid, cur.peer)}
            /\ swept' = swept \ {Pair(cur.cid, cur.peer)}
       ELSE /\ cur' = [cur EXCEPT !.pc = "done", !.err = "BackendFailure"]
            /\ UNCHANGED <<backend, added, live, swept>>
  /\ UNCHANGED <<cache, queue, started, cleaner, timers, now, nsub>>

(* getProviders *)

\* a get that writes the peers it returns back with the current time
GetRun_RefreshesRecords ==
  /\ cur.kind = "get" /\ cur.pc = "run"
  /\ \E io \in BOOLEAN :
       LET got == getProvidersMap(cache, backend, cur.cid, io)
       IN  /\ cache' = got.cache
           /\ IF got.err # ""
              THEN /\ cur' = [cur EXCEPT !.pc = "done", !.err = got.err]
                   /\ backend' = backend
              ELSE /\ cur' = [cur EXCEPT !.pc = "done", !.hit = got.hit,
                                !.result = {peerIdFromString(ps) : ps \in DOMAIN got.provs}]
                   /\ backend' = {[key |-> e.key,
                                   value |-> IF StartsWith(e.key, makeProviderKey(base32(cur.cid)))
                                             THEN varintEncode(now) ELSE e.value] :
                                  e \in backend}
  /\ UNCHANGED <<queue, started, cleaner, timers, now, nsub, added, live, swept>>

GetRun ==
  /\ cur.kind = "get" /\ cur.pc = "run"
  /\ \E io \in BOOLEAN :
       LET got == getProvidersMap(cache, backend, cur.cid, io)
       IN  /\ cache' = got.cache
           /\ IF got.err # ""
              THEN cur' = [cur EXCEPT !.pc = "done", !.err = got.err]
              ELSE cur' = [cur EXCEPT !.pc = "done", !.hit = got.hit,
                             !.result = {peerIdFromString(ps) : ps \in DOMAIN got.provs}]
  /\ UNCHANGED <<backend, queue, started, cleaner, timers, now, nsub,
                 added, live, swept>>

----------------------------------------------------------------------------
(* _cleanup *)

\* expiry already at the validity, not after it
Expired_AtValidity(time) == now - time >= provideValidity

\* line 283
Expired(time) == now - time > provideValidity

\* lines 290-292: deleted is a Map in insertion order, cid -> Set of peers
DeletedAdd(deleted, cid, peerId) ==
  IF \E i \in 1..Len(deleted) : deleted[i].cid = cid
  THEN [i \in 1..Len(deleted) |->
          IF deleted[i].cid = cid
          THEN [cid |-> cid, peers |-> deleted[i].peers \cup {peerId}]
          ELSE deleted[i]]
  ELSE Append(deleted, [cid |-> cid, peers |-> {peerId}])

\* lines 271-274: the batch is created and the query opened
SweepOpen ==
  /\ cur.kind = "sweep" /\ cur.pc = "run"
  /\ \E io \in BOOLEAN :
       IF io
       THEN cur' = [cur EXCEPT !.pc = "scan",
                      !.todo = DatastoreQuery(backend, PROVIDER_KEY_PREFIX)]
       ELSE cur' = [cur EXCEPT !.pc = "done", !.err = "BackendFailure"]
  /\ UNCHANGED <<backend, cache, queue, started, cleaner, timers, now, nsub,
                 added, live, swept>>

\* a scan without the try/catch of lines 277 and 295: the parse error ends
\* the sweep
SweepEntry_NoCatch ==
  /\ cur.kind = "sweep" /\ cur.pc = "scan"
  /\ \E entry \in cur.todo :
       LET parsed == parseProviderKey(entry.key)
           time == readTime(entry.value)
           rest == cur.todo \ {entry}
           old == Expired(time.value)
       IN  /\ IF ~(parsed.ok /\ time.ok)
              THEN cur' = [cur EXCEPT !.pc = "done", !.err = "Malformed"]
              ELSE IF old
              THEN cur' = [cur EXCEPT !.todo = rest,
                             !.batch = @ \cup {entry.key},
                             !.deleted = DeletedAdd(@, parsed.cid, parsed.peerId),
                             !.old = @ \cup {entry}]
              ELSE cur' = [cur EXCEPT !.todo = rest, !.kept = @ \cup {entry}]
           /\ live' = IF parsed.ok /\ time.ok /\ old
                      THEN live \ {<<parsed.cid, parsed.peerId>>} ELSE live
  /\ UNCHANGED <<backend, cache, queue, started, cleaner, timers, now, nsub,
                 added, swept>>

\* lines 276-298: one entry of the query, or the iterator fails
SweepEntry ==
  /\ cur.kind = "sweep" /\ cur.pc = "scan"
  /\ \/ \E entry \in cur.todo :
          LET parsed == parseProviderKey(entry.key)
              time == readTime(entry.value)
              rest == cur.todo \ {entry}
              wellFormed == parsed.ok /\ time.ok
              old == wellFormed /\ now - time.value > provideValidity
              young == wellFormed /\ now - time.value <= provideValidity
          IN  /\ IF wellFormed /\ Expired(time.value)
                 THEN cur' = [cur EXCEPT !.todo = rest,
                                !.batch = @ \cup {entry.key},
                                !.deleted = DeletedAdd(@, parsed.cid, parsed.peerId),
                                !.old = IF old THEN @ \cup {entry} ELSE @,
                                !.kept = IF young THEN @ \cup {entry} ELSE @]
                 ELSE cur' = [cur EXCEPT !.todo = rest,
                                !.old = IF old THEN @ \cup {entry} ELSE @,
                                !.kept = IF young THEN @ \cup {entry} ELSE @]
              /\ live' = IF old THEN live \ {<<parsed.cid, parsed.peerId>>} ELSE live
     \/ /\ cur.todo # {}
        /\ cur' = [cur EXCEPT !.pc = "done", !.err = "BackendFailure"]
        /\ live' = live
  /\ UNCHANGED <<backend, cache, queue, started, cleaner, timers, now, nsub,
                 added, swept>>

\* a commit that has applied its deletes when it throws
SweepCommit_AppliedOnFailure ==
  /\ cur.kind = "sweep" /\ cur.pc = "scan" /\ cur.todo = {}
  /\ \E io \in BOOLEAN :
       IF cur.deleted = <<>>
       THEN /\ cur' = [cur EXCEPT !.pc = "done"]
            /\ UNCHANGED <<backend, swept>>
       ELSE /\ backend' = BatchCommit(backend, cur.batch)
            /\ cur' = IF io THEN [cur EXCEPT !.pc = "reconcile"]
                      ELSE [cur EXCEPT !.pc = "done", !.err = "BackendFailure"]
            /\ swept' = swept \cup
                 UNION {{<<cur.deleted[i].cid, ps>> : ps \in cur.deleted[i].peers} :
                          i \in 1..Len(cur.deleted)}
  /\ UNCHANGED <<cache, queue, started, cleaner, timers, now, nsub, added, live>>

\* lines 300-306: the query is exhausted; commit the batch if it deletes
SweepCommit ==
  /\ cur.kind = "sweep" /\ cur.pc = "scan" /\ cur.todo = {}
  /\ \E io \in BOOLEAN :
       IF cur.deleted = <<>>
       THEN /\ cur' = [cur EXCEPT !.pc = "done"]
            /\ UNCHANGED <<backend, swept>>
       ELSE IF io
       THEN /\ backend' = BatchCommit(backend, cur.batch)
            /\ cur' = [cur EXCEPT !.pc = "reconcile"]
            /\ swept' = swept \cup
                 UNION {{<<cur.deleted[i].cid, ps>> : ps \in cur.deleted[i].peers} :
                          i \in 1..Len(cur.deleted)}
       ELSE /\ cur' = [cur EXCEPT !.pc = "done", !.err = "BackendFailure"]
            /\ UNCHANGED <<backend, swept>>
  /\ UNCHANGED <<cache, queue, started, cleaner, timers, now, nsub, added, live>>

\* a sweep that leaves the cache as it is
ClearExpired_Nothing(c, deleted) == c

\* lines 309-324: clear the deleted peers from the cache
RECURSIVE ClearExpired(_, _)
ClearExpired(c, deleted) ==
  IF deleted = <<>> THEN c
  ELSE LET key == makeProviderKey(Head(deleted).cid)
           provs == MapDeleteAll(CacheValue(c, key), Head(deleted).peers)
           touched == CacheTouch(c, key)
       IN  IF ~CacheHas(c, key) THEN ClearExpired(c, Tail(deleted))
           ELSE IF DOMAIN provs = {}
           THEN ClearExpired(CacheRemove(touched, key), Tail(deleted))
           ELSE ClearExpired(CacheSet(touched, key, provs), Tail(deleted))

SweepReconcile ==
  /\ cur.kind = "sweep" /\ cur.pc = "reconcile"
  /\ cache' = ClearExpired(cache, cur.deleted)
  /\ cur' = [cur EXCEPT !.pc = "done"]
  /\ UNCHANGED <<backend, queue, started, cleaner, timers, now, nsub,
                 added, live, swept>>

----------------------------------------------------------------------------

Next ==
  \/ Tick
  \/ Start
  \/ Stop
  \/ TimerFire
  \/ CallAddProvider
  \/ CallGetProviders
  \/ StartNext
  \/ Return
  \/ Restart
  \/ AddLoad
  \/ AddPut
  \/ GetRun
  \/ SweepOpen
  \/ SweepEntry
  \/ SweepCommit
  \/ SweepReconcile

Spec == Init /\ [][Next]_vars

\* a record an earlier run wrote for a cid whose text extends CID_A's
PrefixedEntry ==
  [key |-> ProviderEntryKey("CID_AB", "PEER_2"), value |-> varintEncode(0)]

\* the registry constructed over the datastore that holds that record
PrefixInit ==
  /\ backend = {PrefixedEntry}
  /\ cache = <<>>
  /\ queue = <<>>
  /\ cur = NoUnit
  /\ started = FALSE
  /\ cleaner = None
  /\ timers = {}
  /\ now = 0
  /\ nsub = 0
  /\ added = PairsIn(backend)
  /\ live = PairsIn(backend)
  /\ swept = {}

PrefixSpec == PrefixInit /\ [][Next]_vars

\* a step of the syncQueue or of the unit in its slot: the event loop runs a
\* settled promise's continuation, and every datastore call returns or throws
QueueStep ==
  \/ StartNext
  \/ Return
  \/ AddLoad
  \/ AddPut
  \/ GetRun
  \/ SweepOpen
  \/ SweepEntry
  \/ SweepCommit
  \/ SweepReconcile

FairSpec == Spec /\ WF_vars(QueueStep)

----------------------------------------------------------------------------
(* Properties *)

Done(kind) == cur.kind = kind /\ cur.pc = "done"

DoneOk(kind) == Done(kind) /\ cur.err = ""

\* the entries of a store whose key parses to the pair
RecordsFor(store, cid, peer) ==
  {e \in store :
     parseProviderKey(e.key) =
       [ok |-> TRUE, cid |-> base32(cid), peerId |-> peerToString(peer)]}

\* no two entries of the store have keys that parse to the same pair
OnePerPair(store) ==
  LET keyed == {<<e, parseProviderKey(e.key)>> : e \in store}
  IN  \A x \in keyed, y \in keyed : (x[2].ok /\ x[2] = y[2]) => x[1] = y[1]

\* cache entry of a cid text holds the peer text, with this timestamp
CacheHolds(c, cidStr, peerStr) ==
  /\ CacheHas(c, makeProviderKey(cidStr))
  /\ peerStr \in DOMAIN CacheValue(c, makeProviderKey(cidStr))

CacheTime(c, cidStr, peerStr) == CacheValue(c, makeProviderKey(cidStr))[peerStr]

\* C1: after every completed addProvider and sweep the backend holds no two
\* records for one (cid, peer), and when an addProvider(cid, peer) has
\* completed the backend holds exactly one record for the pair, whose value
\* decodes to the time of that add.
C1_OneRecordPerPair ==
  /\ (DoneOk("add") \/ DoneOk("sweep")) => OnePerPair(backend)
  /\ DoneOk("add") =>
       LET recs == RecordsFor(backend, cur.cid, cur.peer)
       IN  /\ Cardinality(recs) = 1
           /\ \A e \in recs : readTime(e.value) = [ok |-> TRUE, value |-> cur.time]

\* an add at t2 has completed over a record an add at t1 < t2 wrote
C1_Witness ==
  /\ DoneOk("add")
  /\ \E e \in RecordsFor(cur.backend0, cur.cid, cur.peer) :
       readTime(e.value).ok /\ readTime(e.value).value < cur.time

\* C2: a getProviders(cid) that runs after a completed addProvider(cid, p)
\* returns p, unless a sweep in between read p's record as older than
\* provideValidity.
C2_GetSeesAdded ==
  DoneOk("get") =>
    \A peer \in PEERS : Pair(cur.cid, peer) \in live => peer \in cur.result

\* a get that missed the cache returned a peer added to CID_A in this run
C2_Witness ==
  /\ DoneOk("get") /\ ~cur.hit /\ cur.cid = "CID_A"
  /\ \E peer \in PEERS : Pair(cur.cid, peer) \in live /\ peer \in cur.result

\* C3: when a sweep has completed, every record it read as older than
\* provideValidity is absent from the backend and its peer is absent from
\* the cache entry of its cid.
C3_Expiry ==
  DoneOk("sweep") =>
    \A e \in cur.old :
      /\ \A x \in backend : x.key # e.key
      /\ ~CacheHolds(cache, parseProviderKey(e.key).cid, parseProviderKey(e.key).peerId)

\* a sweep has completed that deleted a record whose peer was cached
C3_Witness ==
  /\ DoneOk("sweep")
  /\ \E e \in cur.old :
       CacheHolds(cur.cache0, parseProviderKey(e.key).cid, parseProviderKey(e.key).peerId)

C5_NoSweptPeerReturned ==
  DoneOk("get") => \A peer \in cur.result : Pair(cur.cid, peer) \notin swept

\* C6: addProvider and getProviders report no failure other than a
\* BackendFailure.
C6_OnlyBackendFailure ==
  (Done("add") \/ Done("get")) => cur.err \in {"", "BackendFailure"}

\* C7: when an addProvider has completed and no record is deleted, the
\* backend holds exactly one record for each pair whose addProvider has
\* completed, whatever the order of submission and of the backend suspensions.
C7_ExactlyKRecords ==
  (DoneOk("add") /\ swept = {}) =>
    /\ PairsIn(backend) = added
    /\ Cardinality({e \in backend : readTime(e.value).ok /\ parseProviderKey(e.key).ok})
         = Cardinality(added)

\* a repeated add has completed while another add waits in the queue, with
\* two distinct pairs added
C7_Witness ==
  /\ DoneOk("add")
  /\ RecordsFor(cur.backend0, cur.cid, cur.peer) # {}
  /\ Cardinality(added) >= 2
  /\ swept = {}
  /\ queue # <<>> /\ Head(queue).kind = "add"

\* C8: a getProviders(cid) returns the peers a fresh registry over the same
\* backend would load for the cid.
C8_CacheAdvisory ==
  DoneOk("get") =>
    LET fresh == loadProviders(backend, cur.cid, TRUE)
    IN  /\ fresh.err = ""
        /\ cur.result = {peerIdFromString(ps) : ps \in DOMAIN fresh.provs}

\* C9: at most one interval timer is scheduled, and one is scheduled exactly
\* when the registry is started; it is the one this.cleaner holds.
C9_OneTimer ==
  /\ Cardinality(timers) <= 1
  /\ started <=> timers # {}
  /\ started => cleaner \in timers

\* the registry is running and start can be called again
C9_Witness == started /\ Cardinality(timers) = 1 /\ ENABLED Start

\* C10: a sweep unit is submitted only while started; a step that leaves the
\* registry stopped schedules no timer, and the step that stops it leaves the
\* unit in the slot and the queue as they are.
C10_StopSchedulesNoSweep ==
  /\ [][(\/ (Len(queue') > Len(queue) /\ queue'[Len(queue')].kind = "sweep")
          \/ (cur = NoUnit /\ cur'.kind = "sweep"))
          => started]_vars
  /\ [][~started' => timers' = {} /\ cleaner' = None]_vars
  /\ [][(started /\ ~started') => (cur' = cur /\ queue' = queue)]_vars

\* a sweep admitted before stop has completed, with deletions, after stop
C10_Witness == ~started /\ DoneOk("sweep") /\ cur.old # {} /\ timers = {}

\* the number of admitted units whose function has returned or thrown
Completed ==
  nsub - Len(queue) - (IF cur.pc \in {None, "done"} THEN 0 ELSE 1)

\* C11: under FairSpec the k-th unit admitted to the syncQueue eventually
\* completes, for every k, whatever failed before it and whether or not the
\* registry was stopped.
C11_EveryUnitCompletes ==
  \A k \in 1..MaxOps : (nsub >= k) ~> (Completed >= k)

\* an add has failed at its put while the registry is stopped and another
\* unit waits behind it
C11_Witness ==
  /\ Done("add") /\ cur.err = "BackendFailure" /\ cur.time > 0
  /\ queue # <<>>
  /\ ~started

\* the unit in the slot is suspended in an await of its function
InProgress == cur.pc \in {"run", "put", "scan", "reconcile"}

\* C12: while the unit in the slot is in progress, the slot changes only by
\* that unit's own steps, every unit submitted meanwhile is appended to the
\* queue, and only the unit in the slot changes the backend or the cache (a
\* registry constructed anew over the datastore starts with an empty cache).
C12_MutualExclusion ==
  [][/\ (InProgress /\ cur' # cur) =>
          /\ cur'.kind = cur.kind /\ cur'.cid = cur.cid /\ cur'.peer = cur.peer
          /\ cur'.pc # "run"
          /\ nsub' = nsub /\ queue' = queue
     /\ (InProgress /\ nsub' > nsub) =>
          /\ cur' = cur
          /\ Len(queue') = Len(queue) + 1
          /\ SubSeq(queue', 1, Len(queue)) = queue
     /\ (backend' # backend \/ cache' # cache) =>
          \/ InProgress /\ cur' # cur
          \/ cur = NoUnit /\ backend' = backend /\ cache' = <<>>]_vars

\* a sweep is suspended in its scan, with one entry read, while the next
\* tick's sweep waits in the queue
C12_Witness ==
  /\ cur.kind = "sweep" /\ cur.pc = "scan" /\ cur.todo # cur.backend0
  /\ queue # <<>> /\ Head(queue).kind = "sweep"

\* C13: the units that have started are exactly those admitted before every
\* unit still waiting, the waiting ones are in admission order, and when an
\* addProvider has completed, the backend record and the cache entry of its
\* pair hold the time of that add, the one admitted last among those run.
C13_AdmissionOrder ==
  /\ \A i \in 1..Len(queue) : queue[i].seq = nsub - Len(queue) + i
  /\ cur # NoUnit => cur.seq = nsub - Len(queue)
  /\ DoneOk("add") =>
       /\ \A e \in RecordsFor(backend, cur.cid, cur.peer) :
            readTime(e.value) = [ok |-> TRUE, value |-> cur.time]
       /\ CacheHolds(cache, base32(cur.cid), peerToString(cur.peer))
       /\ CacheTime(cache, base32(cur.cid), peerToString(cur.peer)) = cur.time

\* the second of two adds of one pair has completed at a later time than the
\* first, while a unit admitted after both still waits
C13_Witness ==
  /\ DoneOk("add") /\ cur.seq >= 2 /\ queue # <<>>
  /\ \E e \in RecordsFor(cur.backend0, cur.cid, cur.peer) :
       readTime(e.value).ok /\ readTime(e.value).value > 0
                            /\ readTime(e.value).value < cur.time

\* the map a load of the cid text would build from the well-formed records
\* of the store
RecordsMap(store, cidStr) ==
  LET read == {[k |-> parseProviderKey(e.key), t |-> readTime(e.value)] : e \in store}
      mine == {r \in read : r.k.ok /\ r.t.ok /\ r.k.cid = cidStr}
  IN  [ps \in {r.k.peerId : r \in mine} |->
         (CHOOSE r \in mine : r.k.peerId = ps).t.value]

\* C14: whenever no unit is in progress, every cache entry maps exactly the
\* peers that have a backend record under its cid, each to the time of its
\* record.
C14_CacheCoherent ==
  ~InProgress =>
    \A i \in 1..Len(cache) :
      cache[i].value =
        RecordsMap(backend, SubSeq(cache[i].key, Len(PROVIDER_KEY_PREFIX) + 2,
                                   Len(cache[i].key)))

\* C15: whenever no unit is in progress, every peer of a cache entry has a
\* record under the entry's cid in the backend.
C15_CacheSubsetOfBackend ==
  ~InProgress =>
    \A i \in 1..Len(cache) :
      DOMAIN cache[i].value \subseteq
        DOMAIN RecordsMap(backend, SubSeq(cache[i].key, Len(PROVIDER_KEY_PREFIX) + 2,
                                          Len(cache[i].key)))

\* the entries of a store that parseProviderKey or readTime rejects
MalformedIn(store) ==
  {e \in store : ~(parseProviderKey(e.key).ok /\ readTime(e.value).ok)}

\* C16: a sweep never ends with a parse or decode error; one that completes
\* has left every malformed entry where it was, has judged every well-formed
\* entry, has deleted those it read as older than provideValidity and has
\* left the others in the backend.
C16_SweepSkipsMalformed ==
  Done("sweep") =>
    /\ cur.err \in {"", "BackendFailure"}
    /\ cur.err = "" =>
         /\ MalformedIn(cur.backend0) \subseteq backend
         /\ cur.old \cup cur.kept = cur.backend0 \ MalformedIn(cur.backend0)
         /\ cur.old \cap backend = {}
         /\ cur.kept \subseteq backend

\* a sweep over a malformed key, a malformed value, an expired record and a
\* record that is not expired has completed
C16_Witness ==
  /\ DoneOk("sweep")
  /\ MalformedKeyEntry \in cur.backend0 /\ MalformedValueEntry \in cur.backend0
  /\ cur.old # {} /\ cur.kept # {}

\* C17: a sweep that ends with a failure of the scan or of the commit leaves
\* the backend and the cache as they were when it started, and the timer
\* that submitted it scheduled; every sweep starts with an empty batch and an
\* empty deleted map, whatever the sweep before it staged.
C17_FailedSweepChangesNothing ==
  /\ (Done("sweep") /\ cur.err # "") =>
       /\ backend = cur.backend0
       /\ cache = cur.cache0
       /\ started => cleaner \in timers
  /\ (cur.kind = "sweep" /\ cur.pc = "run") =>
       /\ cur.batch = {} /\ cur.deleted = <<>> /\ cur.todo = {}
       /\ cur.old = {} /\ cur.kept = {} /\ cur.err = ""

\* a sweep has failed at the commit of a delete of a cached peer's record,
\* and the next tick's sweep waits behind it
C17_Witness ==
  /\ Done("sweep") /\ cur.err = "BackendFailure"
  /\ cur.todo = {} /\ cur.batch # {}
  /\ \E e \in cur.old :
       CacheHolds(cache, parseProviderKey(e.key).cid, parseProviderKey(e.key).peerId)
  /\ queue # <<>> /\ Head(queue).kind = "sweep"

\* the prefix as the specification's key layout has it
providerPrefix == <<"/", "providers">>

\* the record key of the layout /providers/<cid-text>/<peer-text>
recordKey(cid, peer) ==
  providerPrefix \o <<"/">> \o base32(cid) \o <<"/">> \o peerToString(peer)

C19_NoCrossCidLeak ==
  (DoneOk("get") /\ ~cur.hit) =>
    \A peer \in cur.result : Pair(cur.cid, peer) \in added

\* C20: the step of a getProviders(cid) unit leaves the backend as it is; an
\* entry of the cache after it is the entry of cid or an entry the cache had
\* before it, the entry of cid is the map the unit returns, and a unit that
\* fails leaves the cache as it is.
C20_GetReadOnly ==
  [][(cur.kind = "get" /\ cur.pc = "run" /\ cur' # cur) =>
       /\ backend' = backend
       /\ \A i \in 1..Len(cache') :
            \/ \E j \in 1..Len(cache) : cache[j] = cache'[i]
            \/ /\ cache'[i].key = makeProviderKey(base32(cur.cid))
               /\ {peerIdFromString(ps) : ps \in DOMAIN cache'[i].value} = cur'.result
       /\ cur'.err # "" => cache' = cache
       /\ cur'.err = "" => CacheHas(cache', makeProviderKey(base32(cur.cid)))]_vars

\* a getProviders of a cid with no record has missed the cache and cached
\* the empty map, with a record of another cid in the backend
C20_Witness ==
  /\ DoneOk("get") /\ ~cur.hit /\ cur.result = {}
  /\ cache = <<[key |-> makeProviderKey(base32(cur.cid)), value |-> EmptyMap]>>
  /\ \E e \in backend : parseProviderKey(e.key).ok /\ readTime(e.value).value > 0

====
